---- MODULE Spec2Model ----
(***************************************************************************)
(* A model of src/scrubAnimations.js: class ScrubEffects, the coordinator  *)
(* that mirrors the window scroll offset onto a root element and applies   *)
(* scroll-driven effects (parallax, slide-in) once per animation frame.    *)
(*                                                                         *)
(* JavaScript values are modelled as records of one shape, so that the     *)
(* coercions of the arithmetic operators (string -> number, undefined ->   *)
(* NaN, division by zero -> Infinity) are computed as the engine computes  *)
(* them.  Finite numbers are exact rationals n/d in lowest terms, and zero *)
(* has a sign.                                                             *)
(***************************************************************************)
EXTENDS Integers, Sequences, FiniteSets, TLC

(***************************************************************************)
(* JavaScript values                                                       *)
(***************************************************************************)
Abs(i) == IF i < 0 THEN -i ELSE i

RECURSIVE Gcd(_, _)
Gcd(a, b) == IF b = 0 THEN a ELSE Gcd(b, a % b)

\* A finite number n/d, reduced, with a positive denominator.
Num(n, d) ==
  LET g == Gcd(Abs(n), Abs(d))
      s == IF d < 0 THEN -1 ELSE 1
  IN  [t |-> "num", n |-> (s * n) \div g, d |-> Abs(d) \div g, s |-> <<>>]

Int2JS(i) == Num(i, 1)
NaN       == [t |-> "nan", n |-> 0, d |-> 1, s |-> <<>>]
Infinity  == [t |-> "inf", n |-> 1, d |-> 1, s |-> <<>>]
NegInfinity == [t |-> "inf", n |-> -1, d |-> 1, s |-> <<>>]
Undefined == [t |-> "undef", n |-> 0, d |-> 1, s |-> <<>>]
\* A string, as the sequence of its characters.
Str(chars) == [t |-> "str", n |-> 0, d |-> 1, s |-> chars]

\* Zero carries a sign: -0 is the zero whose denominator is -1.
NegZero   == [t |-> "num", n |-> 0, d |-> -1, s |-> <<>>]
IsZero(v) == v.t = "num" /\ v.n = 0
\* The sign bit of a number that is not NaN.
Negative(v) == v.n < 0 \/ (v.n = 0 /\ v.d < 0)
Zero(negative) == IF negative THEN NegZero ELSE Int2JS(0)

Sign(v) == IF v.n < 0 THEN -1 ELSE IF v.n > 0 THEN 1 ELSE 0

\* a + b on two numbers.
NumAdd(a, b) ==
  CASE a.t = "nan" \/ b.t = "nan" -> NaN
    [] a.t = "inf" /\ b.t = "inf" -> IF a.n = b.n THEN a ELSE NaN
    [] a.t = "inf" -> a
    [] b.t = "inf" -> b
    [] IsZero(a) /\ IsZero(b) -> Zero(Negative(a) /\ Negative(b))
    [] OTHER -> Num(a.n * Abs(b.d) + b.n * Abs(a.d), Abs(a.d) * Abs(b.d))

\* -a
NumNeg(a) ==
  CASE a.t = "nan" -> NaN
    [] a.t = "inf" -> [a EXCEPT !.n = -a.n]
    [] IsZero(a) -> Zero(~Negative(a))
    [] OTHER -> Num(-a.n, a.d)

\* a * b on two numbers.
NumMul(a, b) ==
  CASE a.t = "nan" \/ b.t = "nan" -> NaN
    [] a.t = "inf" \/ b.t = "inf" ->
         IF Sign(a) * Sign(b) = 0 THEN NaN
         ELSE IF Sign(a) * Sign(b) > 0 THEN Infinity ELSE NegInfinity
    [] IsZero(a) \/ IsZero(b) -> Zero(Negative(a) # Negative(b))
    [] OTHER -> Num(a.n * b.n, a.d * b.d)

\* a / b on two numbers.
NumDiv(a, b) ==
  CASE a.t = "nan" \/ b.t = "nan" -> NaN
    [] a.t = "inf" /\ b.t = "inf" -> NaN
    [] a.t = "inf" -> IF Negative(a) # Negative(b) THEN NegInfinity ELSE Infinity
    [] b.t = "inf" -> Zero(Negative(a) # Negative(b))
    [] IsZero(b) -> IF IsZero(a) THEN NaN
                    ELSE IF Negative(a) # Negative(b) THEN NegInfinity ELSE Infinity
    [] IsZero(a) -> Zero(Negative(a) # Negative(b))
    [] OTHER -> Num(a.n * b.d, a.d * b.n)

\* a < b on two numbers, neither NaN (-0 is not below +0).
NumLess(a, b) ==
  CASE a.t = "inf" -> a.n < 0 /\ ~(b.t = "inf" /\ b.n < 0)
    [] b.t = "inf" -> b.n > 0
    [] OTHER -> a.n * Abs(b.d) < b.n * Abs(a.d)

(***************************************************************************)
(* StringToNumber: the StringNumericLiteral grammar.  A string is the      *)
(* sequence of its characters; a character that has no TLA+ string is      *)
(* written as its code point ("U+00A0").                                   *)
(***************************************************************************)
\* StrWhiteSpaceChar: WhiteSpace and LineTerminator.
StrWhiteSpaceChar ==
  {" ", "\t", "\n", "\r", "\f", "U+000B", "U+00A0", "U+FEFF", "U+1680",
   "U+2000", "U+2001", "U+2002", "U+2003", "U+2004", "U+2005", "U+2006",
   "U+2007", "U+2008", "U+2009", "U+200A", "U+2028", "U+2029", "U+202F",
   "U+205F", "U+3000"}

\* cs without its leading and trailing white space.
Trim(cs) ==
  LET ink == {i \in 1..Len(cs) : cs[i] \notin StrWhiteSpaceChar}
  IN  IF ink = {} THEN <<>>
      ELSE SubSeq(cs, CHOOSE i \in ink : \A j \in ink : i <= j,
                      CHOOSE i \in ink : \A j \in ink : j <= i)

Digits == <<"0", "1", "2", "3", "4", "5", "6", "7", "8", "9">>
IsDigit(c) == \E i \in 1..10 : Digits[i] = c
DigitVal(c) == (CHOOSE i \in 1..10 : Digits[i] = c) - 1

RECURSIVE Pow10(_)
Pow10(k) == IF k = 0 THEN 1 ELSE 10 * Pow10(k - 1)

RECURSIVE DigitsVal(_)
DigitsVal(cs) ==
  IF cs = <<>> THEN 0
  ELSE 10 * DigitsVal(SubSeq(cs, 1, Len(cs) - 1)) + DigitVal(cs[Len(cs)])

AllDigits(cs) == \A i \in 1..Len(cs) : IsDigit(cs[i])

\* The position of the first "." of cs, or 0.
DotAt(cs) ==
  IF \E i \in 1..Len(cs) : cs[i] = "."
  THEN CHOOSE i \in 1..Len(cs) : cs[i] = "." /\ \A j \in 1..(i - 1) : cs[j] # "."
  ELSE 0

\* The position of the first exponent indicator of cs, or 0.
ExponentAt(cs) ==
  IF \E i \in 1..Len(cs) : cs[i] \in {"e", "E"}
  THEN CHOOSE i \in 1..Len(cs) :
         cs[i] \in {"e", "E"} /\ \A j \in 1..(i - 1) : cs[j] \notin {"e", "E"}
  ELSE 0

\* SignedInteger, what follows the exponent indicator: [+-] DecimalDigits.
IsSignedInteger(cs) ==
  /\ cs # <<>>
  /\ IF cs[1] \in {"+", "-"} THEN Len(cs) > 1 /\ AllDigits(Tail(cs))
     ELSE AllDigits(cs)
SignedIntegerVal(cs) ==
  IF cs[1] = "-" THEN -DigitsVal(Tail(cs))
  ELSE IF cs[1] = "+" THEN DigitsVal(Tail(cs))
  ELSE DigitsVal(cs)

\* The digits of 2^1024 - 2^970, half way from the largest double to 2^1024:
\* a literal of this value or more rounds to Infinity.  It is 0.d1d2... * 10^309.
OverflowDigits ==
  << 1, 7, 9, 7, 6, 9, 3, 1, 3, 4, 8, 6, 2, 3, 1, 5, 8, 0, 7, 9, 3, 7, 2, 8,
     9, 7, 1, 4, 0, 5, 3, 0, 3, 4, 1, 5, 0, 7, 9, 9, 3, 4, 1, 3, 2, 7, 1, 0,
     0, 3, 7, 8, 2, 6, 9, 3, 6, 1, 7, 3, 7, 7, 8, 9, 8, 0, 4, 4, 4, 9, 6, 8,
     2, 9, 2, 7, 6, 4, 7, 5, 0, 9, 4, 6, 6, 4, 9, 0, 1, 7, 9, 7, 7, 5, 8, 7,
     2, 0, 7, 0, 9, 6, 3, 3, 0, 2, 8, 6, 4, 1, 6, 6, 9, 2, 8, 8, 7, 9, 1, 0,
     9, 4, 6, 5, 5, 5, 5, 4, 7, 8, 5, 1, 9, 4, 0, 4, 0, 2, 6, 3, 0, 6, 5, 7,
     4, 8, 8, 6, 7, 1, 5, 0, 5, 8, 2, 0, 6, 8, 1, 9, 0, 8, 9, 0, 2, 0, 0, 0,
     7, 0, 8, 3, 8, 3, 6, 7, 6, 2, 7, 3, 8, 5, 4, 8, 4, 5, 8, 1, 7, 7, 1, 1,
     5, 3, 1, 7, 6, 4, 4, 7, 5, 7, 3, 0, 2, 7, 0, 0, 6, 9, 8, 5, 5, 5, 7, 1,
     3, 6, 6, 9, 5, 9, 6, 2, 2, 8, 4, 2, 9, 1, 4, 8, 1, 9, 8, 6, 0, 8, 3, 4,
     9, 3, 6, 4, 7, 5, 2, 9, 2, 7, 1, 9, 0, 7, 4, 1, 6, 8, 4, 4, 4, 3, 6, 5,
     5, 1, 0, 7, 0, 4, 3, 4, 2, 7, 1, 1, 5, 5, 9, 6, 9, 9, 5, 0, 8, 0, 9, 3,
     0, 4, 2, 8, 8, 0, 1, 7, 7, 9, 0, 4, 1, 7, 4, 4, 9, 7, 7, 9, 2 >>
OverflowPoint == Len(OverflowDigits)
\* The digits of 2^-1075 = 5^1075 / 10^1075, half of the least double above 0:
\* a literal of this value or less rounds to 0.  It is 0.d1d2... * 10^-323.
UnderflowDigits ==
  << 2, 4, 7, 0, 3, 2, 8, 2, 2, 9, 2, 0, 6, 2, 3, 2, 7, 2, 0, 8, 8, 2, 8, 4,
     3, 9, 6, 4, 3, 4, 1, 1, 0, 6, 8, 6, 1, 8, 2, 5, 2, 9, 9, 0, 1, 3, 0, 7,
     1, 6, 2, 3, 8, 2, 2, 1, 2, 7, 9, 2, 8, 4, 1, 2, 5, 0, 3, 3, 7, 7, 5, 3,
     6, 3, 5, 1, 0, 4, 3, 7, 5, 9, 3, 2, 6, 4, 9, 9, 1, 8, 1, 8, 0, 8, 1, 7,
     9, 9, 6, 1, 8, 9, 8, 9, 8, 2, 8, 2, 3, 4, 7, 7, 2, 2, 8, 5, 8, 8, 6, 5,
     4, 6, 3, 3, 2, 8, 3, 5, 5, 1, 7, 7, 9, 6, 9, 8, 9, 8, 1, 9, 9, 3, 8, 7,
     3, 9, 8, 0, 0, 5, 3, 9, 0, 9, 3, 9, 0, 6, 3, 1, 5, 0, 3, 5, 6, 5, 9, 5,
     1, 5, 5, 7, 0, 2, 2, 6, 3, 9, 2, 2, 9, 0, 8, 5, 8, 3, 9, 2, 4, 4, 9, 1,
     0, 5, 1, 8, 4, 4, 3, 5, 9, 3, 1, 8, 0, 2, 8, 4, 9, 9, 3, 6, 5, 3, 6, 1,
     5, 2, 5, 0, 0, 3, 1, 9, 3, 7, 0, 4, 5, 7, 6, 7, 8, 2, 4, 9, 2, 1, 9, 3,
     6, 5, 6, 2, 3, 6, 6, 9, 8, 6, 3, 6, 5, 8, 4, 8, 0, 7, 5, 7, 0, 0, 1, 5,
     8, 5, 7, 6, 9, 2, 6, 9, 9, 0, 3, 7, 0, 6, 3, 1, 1, 9, 2, 8, 2, 7, 9, 5,
     5, 8, 5, 5, 1, 3, 3, 2, 9, 2, 7, 8, 3, 4, 3, 3, 8, 4, 0, 9, 3, 5, 1, 9,
     7, 8, 0, 1, 5, 5, 3, 1, 2, 4, 6, 5, 9, 7, 2, 6, 3, 5, 7, 9, 5, 7, 4, 6,
     2, 2, 7, 6, 6, 4, 6, 5, 2, 7, 2, 8, 2, 7, 2, 2, 0, 0, 5, 6, 3, 7, 4, 0,
     0, 6, 4, 8, 5, 4, 9, 9, 9, 7, 7, 0, 9, 6, 5, 9, 9, 4, 7, 0, 4, 5, 4, 0,
     2, 0, 8, 2, 8, 1, 6, 6, 2, 2, 6, 2, 3, 7, 8, 5, 7, 3, 9, 3, 4, 5, 0, 7,
     3, 6, 3, 3, 9, 0, 0, 7, 9, 6, 7, 7, 6, 1, 9, 3, 0, 5, 7, 7, 5, 0, 6, 7,
     4, 0, 1, 7, 6, 3, 2, 4, 6, 7, 3, 6, 0, 0, 9, 6, 8, 9, 5, 1, 3, 4, 0, 5,
     3, 5, 5, 3, 7, 4, 5, 8, 5, 1, 6, 6, 6, 1, 1, 3, 4, 2, 2, 3, 7, 6, 6, 6,
     7, 8, 6, 0, 4, 1, 6, 2, 1, 5, 9, 6, 8, 0, 4, 6, 1, 9, 1, 4, 4, 6, 7, 2,
     9, 1, 8, 4, 0, 3, 0, 0, 5, 3, 0, 0, 5, 7, 5, 3, 0, 8, 4, 9, 0, 4, 8, 7,
     6, 5, 3, 9, 1, 7, 1, 1, 3, 8, 6, 5, 9, 1, 6, 4, 6, 2, 3, 9, 5, 2, 4, 9,
     1, 2, 6, 2, 3, 6, 5, 3, 8, 8, 1, 8, 7, 9, 6, 3, 6, 2, 3, 9, 3, 7, 3, 2,
     8, 0, 4, 2, 3, 8, 9, 1, 0, 1, 8, 6, 7, 2, 3, 4, 8, 4, 9, 7, 6, 6, 8, 2,
     3, 5, 0, 8, 9, 8, 6, 3, 3, 8, 8, 5, 8, 7, 9, 2, 5, 6, 2, 8, 3, 0, 2, 7,
     5, 5, 9, 9, 5, 6, 5, 7, 5, 2, 4, 4, 5, 5, 5, 0, 7, 2, 5, 5, 1, 8, 9, 3,
     1, 3, 6, 9, 0, 8, 3, 6, 2, 5, 4, 7, 7, 9, 1, 8, 6, 9, 4, 8, 6, 6, 7, 9,
     9, 4, 9, 6, 8, 3, 2, 4, 0, 4, 9, 7, 0, 5, 8, 2, 1, 0, 2, 8, 5, 1, 3, 1,
     8, 5, 4, 5, 1, 3, 9, 6, 2, 1, 3, 8, 3, 7, 7, 2, 2, 8, 2, 6, 1, 4, 5, 4,
     3, 7, 6, 9, 3, 4, 1, 2, 5, 3, 2, 0, 9, 8, 5, 9, 1, 3, 2, 7, 6, 6, 7, 2,
     3, 6, 3, 2, 8, 1, 2, 5 >>
UnderflowPoint == Len(UnderflowDigits) - 1075

\* The digits ds (characters) against the digits ts (numbers), both read as
\* 0.d1d2...: the first place where they differ decides.
DigitAt(ds, i) == IF i <= Len(ds) THEN DigitVal(ds[i]) ELSE 0
NumberAt(ts, i) == IF i <= Len(ts) THEN ts[i] ELSE 0
Differ(ds, ts) ==
  {i \in 1..(Len(ds) + Len(ts)) : DigitAt(ds, i) # NumberAt(ts, i)}
FirstDiffer(ds, ts) == CHOOSE i \in Differ(ds, ts) : \A j \in Differ(ds, ts) : i <= j
DigitsAtLeast(ds, ts) ==
  Differ(ds, ts) = {}
    \/ DigitAt(ds, FirstDiffer(ds, ts)) > NumberAt(ts, FirstDiffer(ds, ts))
DigitsAtMost(ds, ts) ==
  Differ(ds, ts) = {}
    \/ DigitAt(ds, FirstDiffer(ds, ts)) < NumberAt(ts, FirstDiffer(ds, ts))

\* The number 0.d1d2...dn * 10^point for the digits ds = d1...dn, rounded as
\* the engine rounds at the ends of the range: from 2^1024 - 2^970 on it is
\* Infinity, up to 2^-1075 it is 0, and in between it is the exact rational
\* (which TLC's integers must hold).  With the digits taken from the first
\* that is not 0, the exponent is point - first + 1.
DecimalValue(ds, point) ==
  LET sig   == {i \in 1..Len(ds) : ds[i] # "0"}
      first == CHOOSE i \in sig : \A j \in sig : i <= j
      last  == CHOOSE i \in sig : \A j \in sig : j <= i
      shift == point - last
      exp   == point - first + 1
  IN  IF sig = {} THEN Int2JS(0)
      ELSE IF exp > OverflowPoint
                \/ (exp = OverflowPoint
                      /\ DigitsAtLeast(SubSeq(ds, first, last), OverflowDigits))
           THEN Infinity
      ELSE IF exp < UnderflowPoint
                \/ (exp = UnderflowPoint
                      /\ DigitsAtMost(SubSeq(ds, first, last), UnderflowDigits))
           THEN Int2JS(0)
      ELSE IF shift >= 0
           THEN Num(DigitsVal(SubSeq(ds, first, last)) * Pow10(shift), 1)
           ELSE Num(DigitsVal(SubSeq(ds, first, last)), Pow10(-shift))

S_Infinity == <<"I", "n", "f", "i", "n", "i", "t", "y">>

\* StrUnsignedDecimalLiteral, for a string with no white space around it and
\* no sign: Infinity, or digits with an optional "." (at least one digit in
\* all) and an optional exponent part; NaN for any other string.
StrUnsignedDecimalLiteral(cs) ==
  LET ex   == ExponentAt(cs)
      mant == IF ex = 0 THEN cs ELSE SubSeq(cs, 1, ex - 1)
      expo == IF ex = 0 THEN <<>> ELSE SubSeq(cs, ex + 1, Len(cs))
      dot  == DotAt(mant)
      ip   == IF dot = 0 THEN mant ELSE SubSeq(mant, 1, dot - 1)
      fp   == IF dot = 0 THEN <<>> ELSE SubSeq(mant, dot + 1, Len(mant))
  IN  IF cs = S_Infinity THEN Infinity
      ELSE IF /\ AllDigits(ip) /\ AllDigits(fp) /\ Len(ip) + Len(fp) > 0
              /\ ex = 0 \/ IsSignedInteger(expo)
           THEN DecimalValue(ip \o fp,
                             Len(ip) + (IF ex = 0 THEN 0 ELSE SignedIntegerVal(expo)))
           ELSE NaN

\* NonDecimalIntegerLiteral: 0x, 0o or 0b (either case) and digits of the radix.
HexDigits == Digits \o <<"a", "b", "c", "d", "e", "f">>
HexCapitals == Digits \o <<"A", "B", "C", "D", "E", "F">>
\* The value of the digit c, 16 when c is no hexadecimal digit.
RadixDigitVal(c) ==
  IF \E i \in 1..16 : HexDigits[i] = c THEN (CHOOSE i \in 1..16 : HexDigits[i] = c) - 1
  ELSE IF \E i \in 1..16 : HexCapitals[i] = c
       THEN (CHOOSE i \in 1..16 : HexCapitals[i] = c) - 1
       ELSE 16
Radix(c) ==
  CASE c \in {"x", "X"} -> 16
    [] c \in {"o", "O"} -> 8
    [] c \in {"b", "B"} -> 2
    [] OTHER -> 0
IsNonDecimalIntegerLiteral(cs) ==
  /\ Len(cs) >= 3
  /\ cs[1] = "0"
  /\ \A i \in 3..Len(cs) : RadixDigitVal(cs[i]) < Radix(cs[2])
RECURSIVE RadixVal(_, _)
RadixVal(cs, radix) ==
  IF cs = <<>> THEN 0
  ELSE radix * RadixVal(SubSeq(cs, 1, Len(cs) - 1), radix) + RadixDigitVal(cs[Len(cs)])

\* The bits of the digits cs of a radix 2, 8 or 16, most significant first.
BitsPerDigit(radix) == CASE radix = 16 -> 4 [] radix = 8 -> 3 [] OTHER -> 1
\* Bit k of the digits: bit (k - 1) % w of digit (k - 1) \div w + 1, where a
\* digit has w bits.
RadixBits(cs, radix) ==
  LET w == BitsPerDigit(radix)
  IN  [k \in 1..(Len(cs) * w) |->
         (RadixDigitVal(cs[(k - 1) \div w + 1]) \div 2^(w - 1 - ((k - 1) % w))) % 2]
\* The bits from the first 1 on.
Significant(bits) ==
  IF \A i \in 1..Len(bits) : bits[i] = 0 THEN <<>>
  ELSE SubSeq(bits, CHOOSE i \in 1..Len(bits) :
                      bits[i] = 1 /\ \A j \in 1..(i - 1) : bits[j] = 0,
              Len(bits))
\* The exponent above the largest double's, and the bits of a double's
\* significand but one: 2^1024 - 2^970 is 54 ones and then zeros.
OverflowBits == 1024
RoundingBits == 54
\* The integer of these bits rounds to Infinity: it is 2^1024 - 2^970 or more.
BitsOverflow(bits) ==
  \/ Len(bits) > OverflowBits
  \/ Len(bits) = OverflowBits /\ \A i \in 1..RoundingBits : bits[i] = 1
\* The value of a NonDecimalIntegerLiteral: the exact integer (which TLC's
\* integers must hold), or Infinity.
NonDecimalValue(cs) ==
  IF BitsOverflow(Significant(RadixBits(SubSeq(cs, 3, Len(cs)), Radix(cs[2]))))
  THEN Infinity
  ELSE Int2JS(RadixVal(SubSeq(cs, 3, Len(cs)), Radix(cs[2])))

\* StrNumericLiteral, for a string that is not empty and has no white space
\* around it: a non-decimal integer (which takes no sign), or a decimal
\* literal with an optional sign.
StrNumericLiteral(cs) ==
  IF IsNonDecimalIntegerLiteral(cs) THEN NonDecimalValue(cs)
  ELSE IF cs[1] = "-" THEN NumNeg(StrUnsignedDecimalLiteral(Tail(cs)))
  ELSE IF cs[1] = "+" THEN StrUnsignedDecimalLiteral(Tail(cs))
  ELSE StrUnsignedDecimalLiteral(cs)

\* StringToNumber: white space around the literal is dropped; the empty
\* string is 0, a numeric literal is its value, anything else is NaN.
StringToNumber(cs) ==
  IF Trim(cs) = <<>> THEN Int2JS(0) ELSE StrNumericLiteral(Trim(cs))

\* ToNumber, the coercion the operators -, * and / apply to their operands.
ToNumber(v) ==
  CASE v.t = "str"   -> StringToNumber(v.s)
    [] v.t = "undef" -> NaN
    [] OTHER         -> v

\* The binary operators of the language, with their coercions.
JsSub(a, b) == NumAdd(ToNumber(a), NumNeg(ToNumber(b)))
JsMul(a, b) == NumMul(ToNumber(a), ToNumber(b))
JsDiv(a, b) == NumDiv(ToNumber(a), ToNumber(b))
\* a + b where both operands are numbers (window scroll and size).
JsAdd(a, b) == NumAdd(a, b)
\* Math.min(a, b): NaN if either argument is NaN; -0 is the lesser zero.
MathMin(a, b) ==
  LET x == ToNumber(a)
      y == ToNumber(b)
  IN  IF x.t = "nan" \/ y.t = "nan" THEN NaN
      ELSE IF NumLess(y, x) \/ (IsZero(x) /\ IsZero(y) /\ Negative(y)) THEN y
      ELSE x


(***************************************************************************)
(* The page: the elements the document holds, in document order.  Each has *)
(* its data-* attributes (the dataset, strings), the rectangle the layout  *)
(* gives it relative to the root, and possibly a first element child.      *)
(***************************************************************************)
S_parallax == <<"p", "a", "r", "a", "l", "l", "a", "x">>
S_slide_in == <<"s", "l", "i", "d", "e", "-", "i", "n">>
S_fade     == <<"f", "a", "d", "e">>
S_right    == <<"r", "i", "g", "h", "t">>
S_left     == <<"l", "e", "f", "t">>
S_fast     == <<"f", "a", "s", "t">>
S_top      == <<"t", "o", "p">>
S_bottom   == <<"b", "o", "t", "t", "o", "m">>
S_up       == <<"u", "p">>

Rect(top, left, bottom, right) ==
  [top |-> Int2JS(top), left |-> Int2JS(left), bottom |-> Int2JS(bottom),
   right |-> Int2JS(right), width |-> Int2JS(right - left),
   height |-> Int2JS(bottom - top)]

\* <section data-effect="parallax" data-speed="0.5"><img></section>
ParallaxStrip ==
  [dataset |-> [effect |-> Str(S_parallax), speed |-> Str(<<"0", ".", "5">>)],
   rect |-> Rect(50, 0, 450, 1000), hasChild |-> TRUE]
\* data-speed="0": a static background
ParallaxStatic ==
  [dataset |-> [effect |-> Str(S_parallax), speed |-> Str(<<"0">>)],
   rect |-> Rect(50, 0, 450, 1000), hasChild |-> TRUE]
\* a parallax strip with no element child
ParallaxNoChild ==
  [dataset |-> [effect |-> Str(S_parallax), speed |-> Str(<<"0", ".", "5">>)],
   rect |-> Rect(50, 0, 450, 1000), hasChild |-> FALSE]
\* data-speed="fast": not a number
ParallaxBadSpeed ==
  [dataset |-> [effect |-> Str(S_parallax), speed |-> Str(S_fast)],
   rect |-> Rect(50, 0, 450, 1000), hasChild |-> TRUE]
\* <div data-effect="slide-in" data-direction="right" data-threshold="0.5">
SlideRight ==
  [dataset |-> [effect |-> Str(S_slide_in), direction |-> Str(S_right),
                threshold |-> Str(<<"0", ".", "5">>)],
   rect |-> Rect(300, 600, 500, 800), hasChild |-> TRUE]
\* data-threshold="0"
SlideRightZero ==
  [dataset |-> [effect |-> Str(S_slide_in), direction |-> Str(S_right),
                threshold |-> Str(<<"0">>)],
   rect |-> Rect(300, 600, 500, 800), hasChild |-> FALSE]
\* data-direction="left"
SlideLeft ==
  [dataset |-> [effect |-> Str(S_slide_in), direction |-> Str(S_left),
                threshold |-> Str(<<"0", ".", "5">>)],
   rect |-> Rect(300, 200, 500, 400), hasChild |-> FALSE]
\* data-direction="top", "bottom", none, and "up" (not a direction)
SlideTop ==
  [dataset |-> [effect |-> Str(S_slide_in), direction |-> Str(S_top),
                threshold |-> Str(<<"0", ".", "5">>)],
   rect |-> Rect(300, 200, 500, 400), hasChild |-> FALSE]
SlideBottom ==
  [dataset |-> [effect |-> Str(S_slide_in), direction |-> Str(S_bottom),
                threshold |-> Str(<<"0", ".", "5">>)],
   rect |-> Rect(300, 200, 500, 400), hasChild |-> FALSE]
SlideNoDirection ==
  [dataset |-> [effect |-> Str(S_slide_in), threshold |-> Str(<<"0", ".", "5">>)],
   rect |-> Rect(300, 200, 500, 400), hasChild |-> FALSE]
SlideUnknown ==
  [dataset |-> [effect |-> Str(S_slide_in), direction |-> Str(S_up),
                threshold |-> Str(<<"0", ".", "5">>)],
   rect |-> Rect(300, 200, 500, 400), hasChild |-> FALSE]
\* data-direction="right" data-threshold="1"
SlideRightFull ==
  [dataset |-> [effect |-> Str(S_slide_in), direction |-> Str(S_right),
                threshold |-> Str(<<"1">>)],
   rect |-> Rect(300, 600, 500, 800), hasChild |-> FALSE]
\* data-effect="fade": an effect the coordinator does not know
Fade ==
  [dataset |-> [effect |-> Str(S_fade)],
   rect |-> Rect(500, 0, 700, 1000), hasChild |-> TRUE]
\* an element with no data-effect attribute
Plain ==
  [dataset |-> [speed |-> Str(<<"1">>)],
   rect |-> Rect(700, 0, 900, 1000), hasChild |-> TRUE]

\* data-speed=" 0.5": white space before the number
ParallaxSpaced ==
  [dataset |-> [effect |-> Str(S_parallax), speed |-> Str(<<" ", "0", ".", "5">>)],
   rect |-> Rect(50, 0, 450, 1000), hasChild |-> TRUE]
\* data-threshold="5e-1": an exponent
SlideRightExponent ==
  [dataset |-> [effect |-> Str(S_slide_in), direction |-> Str(S_right),
                threshold |-> Str(<<"5", "e", "-", "1">>)],
   rect |-> Rect(300, 600, 500, 800), hasChild |-> FALSE]
\* data-threshold="-0": the negative zero
SlideRightNegZero ==
  [dataset |-> [effect |-> Str(S_slide_in), direction |-> Str(S_right),
                threshold |-> Str(<<"-", "0">>)],
   rect |-> Rect(300, 600, 500, 800), hasChild |-> FALSE]
\* data-speed="2e308": above every double, Infinity
ParallaxOverflow ==
  [dataset |-> [effect |-> Str(S_parallax), speed |-> Str(<<"2", "e", "3", "0", "8">>)],
   rect |-> Rect(100, 0, 500, 1000), hasChild |-> TRUE]
\* data-speed="0x" and 257 times "f": an integer above every double, Infinity
ParallaxHexOverflow ==
  [dataset |-> [effect |-> Str(S_parallax),
                speed |-> Str(<<"0", "x">> \o [i \in 1..257 |-> "f"])],
   rect |-> Rect(100, 0, 500, 1000), hasChild |-> TRUE]
\* data-threshold="1e-324": below half the least double, 0
SlideRightUnderflow ==
  [dataset |-> [effect |-> Str(S_slide_in), direction |-> Str(S_right),
                threshold |-> Str(<<"1", "e", "-", "3", "2", "4">>)],
   rect |-> Rect(300, 600, 500, 800), hasChild |-> FALSE]

\* <img data-effect="slide-in" data-direction="left">: an annotated element
\* that is not in the markup.  The page's script creates it and puts it into
\* an element of the page as that element's first element child.
Inserted == 0
InsertedElement ==
  [dataset |-> [effect |-> Str(S_slide_in), direction |-> Str(S_left)],
   rect |-> Rect(50, 0, 250, 1000), hasChild |-> FALSE]

\* A document whose numeric attributes are written in other forms.
Literals ==
  <<ParallaxSpaced, SlideRightExponent, SlideRightNegZero, ParallaxOverflow,
    ParallaxHexOverflow, SlideRightUnderflow>>

\* A document of slide-ins of every direction, the one from the right last.
Gallery ==
  <<SlideLeft, SlideTop, SlideBottom, SlideNoDirection, SlideUnknown, SlideRightFull>>

\* The documents the coordinator is run against.
Pages ==
  << <<Fade, SlideRight>>,
     <<ParallaxNoChild, ParallaxStrip>>,
     <<SlideRight, ParallaxNoChild>>,
     <<ParallaxBadSpeed, SlideRightZero>>,
     <<Plain, SlideLeft>>,
     <<ParallaxStrip, ParallaxStatic>>,
     Gallery,
     Literals >>

\* The window's scroll offsets <<scrollX, scrollY>> and sizes <<width, height>>.
ScrollPositions == { <<0, 0>>, <<5, 100>>, <<0, -300>> }
WindowSizes     == { <<1000, 600>>, <<800, 600>> }
\* The viewports the effect pass is computed for: scrolled above the page and
\* far down it, and a window of no height.
ViewportScrolls == ScrollPositions \cup { <<0, -600>>, <<0, 300>>, <<5, 400>> }
ViewportSizes   == WindowSizes \cup { <<1000, 0>> }

\* The most requestAnimationFrame handles a run issues, and the most scroll
\* events counted between two frames.
MaxFrames  == 2
MaxScrolls == 2


(***************************************************************************)
(* State                                                                   *)
(***************************************************************************)
VARIABLES
  page,                   \* which document of Pages is loaded
  attached,               \* the elements of the page that are under the root
  firstElementChild,      \* per element: its firstElementChild, "null" (none),
                          \* "own" (the child of the markup) or "inserted"
  window,                 \* [x, y, width, height]: the window's scroll and size
  ready,                  \* the document-ready callback has run
  scrollListeners,        \* 'scroll' listeners registered on the window
  resizeListeners,        \* 'resize' listeners registered on the window
  nextFrameCallbackId,    \* this.nextFrameCallbackId (Undefined, or a handle)
  elementsWithEffectsMap, \* this.elementsWithEffectsMap, in insertion order
  rafQueue,               \* handles of the frame callbacks requested, not yet run
  rafCounter,             \* the last handle requestAnimationFrame returned
  bodyHeight,             \* document.body.style.height
  rootClassList,          \* this.root.classList
  rootScrollTop,          \* this.root.scrollTop
  rootScrollLeft,         \* this.root.scrollLeft
  style,                  \* per element: its style.transform and its child's
  trace,                  \* the calls made by the handler that ran last
  threw,                  \* the handler that ran last ended by an exception
  lastScan,               \* the elements under the root when init last scanned
  scrollsSinceFrame       \* scroll events delivered since the last frame

vars ==
  <<page, attached, firstElementChild, window, ready, scrollListeners,
    resizeListeners, nextFrameCallbackId, elementsWithEffectsMap, rafQueue,
    rafCounter, bodyHeight, rootClassList, rootScrollTop, rootScrollLeft, style,
    trace, threw, lastScan, scrollsSinceFrame>>

\* The elements of the markup, and with them the one the script creates.
Elements == 1..Len(Pages[page])
Nodes == Elements \cup {Inserted}
Element(e) == IF e = Inserted THEN InsertedElement ELSE Pages[page][e]
\* The first element child the markup gives the element e.
MarkupChild(e) == IF Element(e).hasChild THEN "own" ELSE "null"
\* The elements in the root's subtree: the inserted one is in it when the
\* element it was put into is.
UnderRoot ==
  attached \cup {n \in {Inserted} : \E h \in attached : firstElementChild[h] = "inserted"}

\* style.transform: unset, or one translate function with its pixel length.
NoTransform == [fn |-> "", px |-> Int2JS(0)]
\* The number as a template literal prints it: -0 prints as 0.
Printed(v) == IF IsZero(v) THEN Int2JS(0) ELSE v
\* `${fn}(${px}px)`
Translate(fn, px) == [fn |-> fn, px |-> Printed(px)]

NoWindow == [x |-> Int2JS(0), y |-> Int2JS(0), width |-> Int2JS(0), height |-> Int2JS(0)]
\* One call, as the trace records it; bg is the first element child that a
\* write to bg.style went to, as it was when the call was made.
Call(op, wd, id) == [op |-> op, wd |-> wd, id |-> id, bg |-> "null"]

\* The part of the state a handler reads and writes, passed from call to call.
World ==
  [nextFrameCallbackId |-> nextFrameCallbackId,
   elementsWithEffectsMap |-> elementsWithEffectsMap,
   rafQueue |-> rafQueue, rafCounter |-> rafCounter,
   bodyHeight |-> bodyHeight, rootClassList |-> rootClassList,
   rootScrollTop |-> rootScrollTop, rootScrollLeft |-> rootScrollLeft,
   style |-> style, trace |-> <<>>,
   threw |-> FALSE,     \* an exception is propagating up the call stack
   uncaught |-> FALSE]  \* an exception left a callback uncaught

\* The world as a handler of the event finds it; the trace starts with the event.
WorldAt(event) == [World EXCEPT !.trace = <<Call(event, NoWindow, 0)>>]

\* The handler has returned: w is the state it leaves.
Commit(w) ==
  /\ nextFrameCallbackId' = w.nextFrameCallbackId
  /\ elementsWithEffectsMap' = w.elementsWithEffectsMap
  /\ rafQueue' = w.rafQueue
  /\ rafCounter' = w.rafCounter
  /\ bodyHeight' = w.bodyHeight
  /\ rootClassList' = w.rootClassList
  /\ rootScrollTop' = w.rootScrollTop
  /\ rootScrollLeft' = w.rootScrollLeft
  /\ style' = w.style
  /\ trace' = w.trace
  /\ threw' = w.uncaught

(***************************************************************************)
(* The environment the coordinator reads                                   *)
(***************************************************************************)
\* win is the window as it is when the handler runs.
getWindowSize(win) == [width |-> Int2JS(win.width), height |-> Int2JS(win.height)]
getWindowScroll(win) == [x |-> Int2JS(win.x), y |-> Int2JS(win.y)]
\* { ...getWindowSize(), ...getWindowScroll() }
windowScrollAndSize(win) ==
  [x |-> getWindowScroll(win).x, y |-> getWindowScroll(win).y,
   width |-> getWindowSize(win).width, height |-> getWindowSize(win).height]

getElementRect(e) == Element(e).rect

\* root.scrollHeight: the extent of the root's content.
Max(a, b) == IF a > b THEN a ELSE b
RECURSIVE MaxBottom(_)
MaxBottom(es) ==
  IF es = {} THEN 0
  ELSE Max(Element(CHOOSE x \in es : TRUE).rect.bottom.n,
           MaxBottom(es \ {CHOOSE x \in es : TRUE}))
rootScrollHeight == MaxBottom(attached)

\* A truthy value (the flag is Undefined or a handle, a positive number).
Truthy(v) == ~(v.t = "undef" \/ v.t = "nan" \/ (v.t = "num" /\ v.n = 0)
               \/ (v.t = "str" /\ v.s = <<>>))

\* obj.key: Undefined when the object has no such property.
Get(obj, key) == IF key \in DOMAIN obj THEN obj[key] ELSE Undefined


(***************************************************************************)
(* class ScrubEffects                                                      *)
(***************************************************************************)
\* The elements of es from e on that carry a data-effect attribute, in
\* document order: an element, then the element inserted into it.
RECURSIVE WithDataEffect(_, _)
WithDataEffect(es, e) ==
  IF e > Len(Pages[page]) THEN <<>>
  ELSE (IF e \in es /\ "effect" \in DOMAIN Element(e).dataset THEN <<e>> ELSE <<>>)
       \o (IF e \in es /\ firstElementChild[e] = "inserted"
                       /\ "effect" \in DOMAIN Element(Inserted).dataset
           THEN <<Inserted>> ELSE <<>>)
       \o WithDataEffect(es, e + 1)

\* Variants: the selector run on the whole document, and a selector that
\* matches every element of the root.
querySelectorAllDocument == WithDataEffect(Elements, 1)
querySelectorAllEvery == SelectSeq([e \in 1..Len(Pages[page]) |-> e], LAMBDA e : e \in attached)

\* this.root.querySelectorAll('[data-effect]')
querySelectorAll == WithDataEffect(attached, 1)

\* getElementsWithEffects(): one entry [element, {...rect, ...dataset}] for
\* each element selected, in document order.
getElementsWithEffects ==
  LET elements == querySelectorAll
  IN  [i \in 1..Len(elements) |->
         [element |-> elements[i],
          params  |-> Element(elements[i]).dataset @@ getElementRect(elements[i])]]

\* initDocument()
initDocument(w) ==
  [w EXCEPT !.bodyHeight = rootScrollHeight,
            !.rootClassList = @ \cup {"scrub-root"},
            !.trace = Append(@, Call("initDocument", NoWindow, 0))]

\* propagateScroll({ x, y }): the two assignments, with the values the code
\* assigns (what the layout then makes of them is not the coordinator's).
propagateScroll(w, wd) ==
  [w EXCEPT !.rootScrollTop = wd.y,
            !.rootScrollLeft = wd.x,
            !.trace = Append(@, Call("propagateScroll", wd, 0))]

\* case 'parallax': bg is the first element child the element has when the
\* pass runs, whatever it is.
applyParallax(w, element, params, wd) ==
  LET bg       == IF element = Inserted THEN "null" ELSE firstElementChild[element]
      top      == Get(params, "top")
      speed    == Get(params, "speed")
      distance == JsMul(JsSub(wd.y, top), speed)
  IN  IF bg = "null"
      THEN \* bg is null: bg.style throws a TypeError
           [w EXCEPT !.threw = TRUE]
      ELSE IF bg = "inserted"
      THEN [w EXCEPT !.style[Inserted].self = Translate("translateY", distance),
                     !.trace = Append(@, [Call("bg.style.transform", wd, element)
                                            EXCEPT !.bg = bg])]
      ELSE [w EXCEPT !.style[element].child = Translate("translateY", distance),
                     !.trace = Append(@, [Call("bg.style.transform", wd, element)
                                            EXCEPT !.bg = bg])]

\* Variant: the progress is not clamped at 1.
slideInProgressUnclamped(params, wd) ==
  JsDiv(JsSub(JsAdd(wd.y, wd.height), Get(params, "top")),
        JsMul(wd.height, Get(params, "threshold")))

\* Variant: the progress is clamped to 0 from below as well.
slideInProgressClamped(params, wd) ==
  IF NumLess(slideInProgressUnclamped(params, wd), Int2JS(0)) THEN Int2JS(0)
  ELSE MathMin(slideInProgressUnclamped(params, wd), Int2JS(1))

\* case 'slide-in', direction 'right'
slideInProgress(params, wd) ==
  LET top       == Get(params, "top")
      threshold == Get(params, "threshold")
      end       == JsMul(wd.height, threshold)
      current   == JsSub(JsAdd(wd.y, wd.height), top)
  IN  MathMin(JsDiv(current, end), Int2JS(1))

\* Variant: the slide-in is applied whatever the direction.
applySlideInAnyDirection(w, element, params, wd) ==
  [w EXCEPT !.style[element].self =
               Translate("translateX",
                         JsMul(JsSub(wd.width, Get(params, "right")),
                               JsSub(Int2JS(1), slideInProgress(params, wd)))),
            !.trace = Append(@, Call("element.style.transform", wd, element))]

applySlideIn(w, element, params, wd) ==
  LET right     == Get(params, "right")
      direction == Get(params, "direction")
      distance  == JsSub(wd.width, right)
      progress  == slideInProgress(params, wd)
  IN  IF direction = Str(S_right)
      THEN [w EXCEPT !.style[element].self =
                        Translate("translateX",
                                  JsMul(distance, JsSub(Int2JS(1), progress))),
                     !.trace = Append(@, Call("element.style.transform", wd, element))]
      ELSE w

\* The switch on params.effect.
switchEffect(w, entry, wd) ==
  CASE Get(entry.params, "effect") = Str(S_parallax) ->
         applyParallax(w, entry.element, entry.params, wd)
    [] Get(entry.params, "effect") = Str(S_slide_in) ->
         applySlideIn(w, entry.element, entry.params, wd)
    [] OTHER -> w

\* Variant: an effect that is not known is an error.
applyEntryStrict(w, entry, wd) ==
  IF Get(entry.params, "effect") \in {Str(S_parallax), Str(S_slide_in)}
  THEN switchEffect([w EXCEPT !.trace = Append(@, Call("entry", wd, entry.element))],
                    entry, wd)
  ELSE [w EXCEPT !.trace = Append(@, Call("entry", wd, entry.element)),
                 !.threw = TRUE]

\* The callback applyEffects passes to forEach, on one entry.
applyEntry(w, entry, wd) ==
  switchEffect([w EXCEPT !.trace = Append(@, Call("entry", wd, entry.element))],
               entry, wd)

\* forEach over the map from entry i on: an exception ends the loop.
RECURSIVE forEachEntry(_, _, _)
forEachEntry(w, i, wd) ==
  IF i > Len(w.elementsWithEffectsMap) \/ w.threw THEN w
  ELSE forEachEntry(applyEntry(w, w.elementsWithEffectsMap[i], wd), i + 1, wd)

\* Variant: the pass scans the root anew instead of reading the registry.
applyEffectsRescanning(w, wd) ==
  forEachEntry([w EXCEPT !.trace = Append(@, Call("applyEffects", wd, 0)),
                         !.elementsWithEffectsMap = getElementsWithEffects], 1, wd)

\* applyEffects(windowDimensions)
applyEffects(w, wd) ==
  forEachEntry([w EXCEPT !.trace = Append(@, Call("applyEffects", wd, 0))], 1, wd)

\* this.nextFrameCallbackId = undefined, reached unless an exception propagates.
releaseFlag(w) ==
  IF w.threw THEN w ELSE [w EXCEPT !.nextFrameCallbackId = Undefined]

\* A statement that an exception propagating skips.
propagateScrollUnlessThrown(w, wd) ==
  IF w.threw THEN w ELSE propagateScroll(w, wd)

\* Variant: the effects are applied before the scroll is propagated.
frameCallbackAnimateFirst(w, win) ==
  releaseFlag(propagateScrollUnlessThrown(applyEffects(w, windowScrollAndSize(win)),
                                          windowScrollAndSize(win)))

\* Variant: the debounce flag is not released.
frameCallbackKeepsFlag(w, win) ==
  applyEffects(propagateScroll(w, windowScrollAndSize(win)), windowScrollAndSize(win))

\* The callback registerNextAF hands to requestAnimationFrame.
frameCallback(w, win) ==
  releaseFlag(applyEffects(propagateScroll(w, windowScrollAndSize(win)),
                           windowScrollAndSize(win)))

\* requestAnimationFrame(callback): queues the callback, returns its handle.
requestAnimationFrame(w) ==
  [w EXCEPT !.rafCounter = @ + 1,
            !.rafQueue = Append(@, w.rafCounter + 1),
            !.trace = Append(@, Call("requestAnimationFrame", NoWindow, w.rafCounter + 1))]

\* this.nextFrameCallbackId = <the handle requestAnimationFrame returned>
setFlag(w) == [w EXCEPT !.nextFrameCallbackId = Int2JS(w.rafCounter)]

\* registerNextAF()
registerNextAF(w) ==
  IF ~Truthy(w.nextFrameCallbackId) THEN setFlag(requestAnimationFrame(w)) ELSE w

\* this.elementsWithEffectsMap = this.getElementsWithEffects()
rescan(w, wd) ==
  [w EXCEPT !.trace = Append(@, Call("init", wd, 0)),
            !.elementsWithEffectsMap = getElementsWithEffects]

\* Variant: the effects are applied at once, for the viewport init measured.
initImmediate(w, win) ==
  applyEffects(propagateScroll(initDocument(rescan(w, windowScrollAndSize(win))),
                               windowScrollAndSize(win)),
               windowScrollAndSize(win))

\* Variant: the entries scanned are added to the old map.
initMerging(w, win) ==
  registerNextAF(
    propagateScroll(
      initDocument([rescan(w, windowScrollAndSize(win))
                      EXCEPT !.elementsWithEffectsMap =
                               w.elementsWithEffectsMap \o getElementsWithEffects]),
      windowScrollAndSize(win)))

\* Variant: a pending frame callback is cancelled and requested anew.
initCancelling(w, win) ==
  registerNextAF(
    propagateScroll(
      initDocument([rescan(w, windowScrollAndSize(win))
                      EXCEPT !.rafQueue = <<>>, !.nextFrameCallbackId = Undefined]),
      windowScrollAndSize(win)))

\* init()
init(w, win) ==
  registerNextAF(
    propagateScroll(initDocument(rescan(w, windowScrollAndSize(win))),
                    windowScrollAndSize(win)))

\* The handler runs once per listener registered.
RECURSIVE dispatchScroll(_, _)
dispatchScroll(w, n) ==
  IF n = 0 THEN w ELSE dispatchScroll(registerNextAF(w), n - 1)

RECURSIVE dispatchResize(_, _, _)
dispatchResize(w, win, n) ==
  IF n = 0 THEN w ELSE dispatchResize(init(w, win), win, n - 1)

\* One animation frame: every callback queued runs, in order; an exception in
\* one is reported and does not keep the others from running.
beginCallback(w, id) ==
  [w EXCEPT !.trace = Append(@, Call("frameCallback", NoWindow, id))]
endCallback(w) ==
  [w EXCEPT !.uncaught = @ \/ w.threw, !.threw = FALSE]

RECURSIVE runCallbacks(_, _, _)
runCallbacks(w, win, queue) ==
  IF queue = <<>> THEN w
  ELSE runCallbacks(endCallback(frameCallback(beginCallback(w, Head(queue)), win)),
                    win, Tail(queue))

(***************************************************************************)
(* Initial state and actions                                               *)
(***************************************************************************)
\* Variant: the constructor registers the listeners itself, not the
\* document-ready callback.
InitListening ==
  /\ page \in {p \in 1..Len(Pages) : Pages[p] \notin {Gallery, Literals}}
  /\ attached = 1..Len(Pages[page])
  /\ firstElementChild = [e \in Elements |-> MarkupChild(e)]
  /\ \E pos \in ScrollPositions, size \in WindowSizes :
       window = [x |-> pos[1], y |-> pos[2], width |-> size[1], height |-> size[2]]
  /\ ready = FALSE
  /\ scrollListeners = 1
  /\ resizeListeners = 1
  /\ nextFrameCallbackId = Undefined
  /\ elementsWithEffectsMap = <<>>
  /\ rafQueue = <<>>
  /\ rafCounter = 0
  /\ bodyHeight = 0
  /\ rootClassList = {}
  /\ rootScrollTop = Int2JS(0)
  /\ rootScrollLeft = Int2JS(0)
  /\ style = [e \in Nodes |-> [self |-> NoTransform, child |-> NoTransform]]
  /\ trace = <<>>
  /\ threw = FALSE
  /\ lastScan = {}
  /\ scrollsSinceFrame = 0

\* The documents whose elements the page's script removes and puts back are
\* the short ones; the longer ones are only scrolled.
Init ==
  /\ page \in {p \in 1..Len(Pages) : Pages[p] \notin {Gallery, Literals}}
  /\ attached = 1..Len(Pages[page])
  /\ firstElementChild = [e \in Elements |-> MarkupChild(e)]
  /\ \E pos \in ScrollPositions, size \in WindowSizes :
       window = [x |-> pos[1], y |-> pos[2], width |-> size[1], height |-> size[2]]
  /\ ready = FALSE
  /\ scrollListeners = 0
  /\ resizeListeners = 0
  /\ nextFrameCallbackId = Undefined
  /\ elementsWithEffectsMap = <<>>
  /\ rafQueue = <<>>
  /\ rafCounter = 0
  /\ bodyHeight = 0
  /\ rootClassList = {}
  /\ rootScrollTop = Int2JS(0)
  /\ rootScrollLeft = Int2JS(0)
  /\ style = [e \in Nodes |-> [self |-> NoTransform, child |-> NoTransform]]
  /\ trace = <<>>
  /\ threw = FALSE
  /\ lastScan = {}
  /\ scrollsSinceFrame = 0

\* A handler that calls registerNextAF may run: a handle is left to issue.
CanRequest == Truthy(nextFrameCallbackId) \/ rafCounter < MaxFrames

\* onReady(() => { addEventListener x 2; this.init() })
OnReady ==
  /\ ~ready
  /\ CanRequest
  /\ ready' = TRUE
  /\ scrollListeners' = scrollListeners + 1
  /\ resizeListeners' = resizeListeners + 1
  /\ \E w \in {init(WorldAt("DOMContentLoaded"), window)} : Commit(w)
  /\ lastScan' = UnderRoot
  /\ UNCHANGED <<page, attached, firstElementChild, window, scrollsSinceFrame>>

\* The window scrolls to pos; the 'scroll' listeners run.
Scroll(pos) ==
  /\ scrollListeners > 0 => CanRequest /\ scrollsSinceFrame < MaxScrolls
  /\ window' = [window EXCEPT !.x = pos[1], !.y = pos[2]]
  /\ IF scrollListeners > 0
     THEN /\ \E w \in {dispatchScroll(WorldAt("scroll"), scrollListeners)} : Commit(w)
          /\ scrollsSinceFrame' = scrollsSinceFrame + 1
     ELSE UNCHANGED <<nextFrameCallbackId, elementsWithEffectsMap, rafQueue,
                      rafCounter, bodyHeight, rootClassList, rootScrollTop,
                      rootScrollLeft, style, trace, threw, scrollsSinceFrame>>
  /\ UNCHANGED <<page, attached, firstElementChild, ready, scrollListeners,
                 resizeListeners, lastScan>>

\* The window is resized to size; the 'resize' listeners run.  The handler
\* reads the window after the change.
Resize(size) ==
  /\ resizeListeners > 0 => CanRequest
  /\ window' = [window EXCEPT !.width = size[1], !.height = size[2]]
  /\ IF resizeListeners > 0
     THEN /\ \E w \in {dispatchResize(WorldAt("resize"),
                                         [window EXCEPT !.width = size[1],
                                                        !.height = size[2]],
                                         resizeListeners)} : Commit(w)
          /\ lastScan' = UnderRoot
     ELSE UNCHANGED <<nextFrameCallbackId, elementsWithEffectsMap, rafQueue,
                      rafCounter, bodyHeight, rootClassList, rootScrollTop,
                      rootScrollLeft, style, trace, threw, lastScan>>
  /\ UNCHANGED <<page, attached, firstElementChild, ready, scrollListeners,
                 resizeListeners, scrollsSinceFrame>>


\* The browser renders a frame: the callbacks requested since the last one run.
AnimationFrame ==
  /\ ready
  /\ \E w \in {runCallbacks([WorldAt("animationFrame") EXCEPT !.rafQueue = <<>>],
                              window, rafQueue)} : Commit(w)
  /\ scrollsSinceFrame' = 0
  /\ UNCHANGED <<page, attached, firstElementChild, window, ready,
                 scrollListeners, resizeListeners, lastScan>>

\* The page's own script takes an element out of the root, or puts it back.
RemoveElement(e) ==
  /\ e \in attached
  /\ attached' = attached \ {e}
  /\ UNCHANGED <<page, firstElementChild, window, ready, scrollListeners,
                 resizeListeners, nextFrameCallbackId, elementsWithEffectsMap,
                 rafQueue, rafCounter, bodyHeight, rootClassList, rootScrollTop,
                 rootScrollLeft, style, trace, threw, lastScan, scrollsSinceFrame>>

AddElement(e) ==
  /\ e \notin attached
  /\ attached' = attached \cup {e}
  /\ UNCHANGED <<page, firstElementChild, window, ready, scrollListeners,
                 resizeListeners, nextFrameCallbackId, elementsWithEffectsMap,
                 rafQueue, rafCounter, bodyHeight, rootClassList, rootScrollTop,
                 rootScrollLeft, style, trace, threw, lastScan, scrollsSinceFrame>>

\* The page's script creates the annotated element and puts it into the
\* strip h, before h's other children: h.prepend(inserted).
PrependElement(h) ==
  /\ h \in attached
  /\ Get(Element(h).dataset, "effect") = Str(S_parallax)
  /\ \A e \in Elements : firstElementChild[e] # "inserted"
  /\ firstElementChild' = [firstElementChild EXCEPT ![h] = "inserted"]
  /\ UNCHANGED <<page, attached, window, ready, scrollListeners, resizeListeners,
                 nextFrameCallbackId, elementsWithEffectsMap, rafQueue, rafCounter,
                 bodyHeight, rootClassList, rootScrollTop, rootScrollLeft, style,
                 trace, threw, lastScan, scrollsSinceFrame>>

Next ==
  \/ OnReady
  \/ \E pos \in ScrollPositions : Scroll(pos)
  \/ \E size \in WindowSizes : Resize(size)
  \/ AnimationFrame
  \/ \E e \in Elements : RemoveElement(e)
  \/ \E e \in Elements : AddElement(e)
  \/ \E h \in Elements : PrependElement(h)

Spec == Init /\ [][Next]_vars

\* The browser keeps rendering frames, so the callbacks queued are run: a
\* step that empties a queue that is not empty is taken if it stays possible.
\* Next has one such step, AnimationFrame with a callback queued.
CallbacksRun == rafQueue # <<>> /\ rafQueue' = <<>>
FairSpec == Spec /\ WF_rafQueue(CallbacksRun)

\* The effect pass over every document, in every viewport: the document is
\* ready (init has run in that viewport) and its first frame is rendered.
Constructed ==
  [nextFrameCallbackId |-> Undefined, elementsWithEffectsMap |-> <<>>,
   rafQueue |-> <<>>, rafCounter |-> 0, bodyHeight |-> 0, rootClassList |-> {},
   rootScrollTop |-> Int2JS(0), rootScrollLeft |-> Int2JS(0),
   style |-> [e \in Nodes |-> [self |-> NoTransform, child |-> NoTransform]],
   trace |-> <<Call("DOMContentLoaded", NoWindow, 0)>>,
   threw |-> FALSE, uncaught |-> FALSE]

ViewportInit ==
  /\ page \in 1..Len(Pages)
  /\ attached = 1..Len(Pages[page])
  /\ firstElementChild = [e \in Elements |-> MarkupChild(e)]
  /\ \E pos \in ViewportScrolls, size \in ViewportSizes :
       window = [x |-> pos[1], y |-> pos[2], width |-> size[1], height |-> size[2]]
  /\ ready = TRUE
  /\ scrollListeners = 1
  /\ resizeListeners = 1
  /\ \E w \in {init(Constructed, window)} :
       /\ nextFrameCallbackId = w.nextFrameCallbackId
       /\ elementsWithEffectsMap = w.elementsWithEffectsMap
       /\ rafQueue = w.rafQueue
       /\ rafCounter = w.rafCounter
       /\ bodyHeight = w.bodyHeight
       /\ rootClassList = w.rootClassList
       /\ rootScrollTop = w.rootScrollTop
       /\ rootScrollLeft = w.rootScrollLeft
       /\ style = w.style
       /\ trace = w.trace
       /\ threw = w.uncaught
  /\ lastScan = attached
  /\ scrollsSinceFrame = 0

ViewportSpec == ViewportInit /\ [][AnimationFrame]_vars

TypeOK ==
  /\ ready \in BOOLEAN
  /\ attached \subseteq Elements
  /\ firstElementChild \in [Elements -> {"null", "own", "inserted"}]


(***************************************************************************)
(* Reading the trace of the handler that ran last                          *)
(***************************************************************************)
Ops(tr, op) == {i \in 1..Len(tr) : tr[i].op = op}
Passes(tr) == Cardinality(Ops(tr, "applyEffects"))
Requests(tr) == Cardinality(Ops(tr, "requestAnimationFrame"))
EventOf(tr) == IF tr = <<>> THEN "" ELSE tr[1].op
\* The elements whose entry the pass reached, and those whose style it wrote.
Visited(tr) == {tr[i].id : i \in Ops(tr, "entry")}
Written(tr) ==
  {tr[i].id : i \in Ops(tr, "bg.style.transform") \cup Ops(tr, "element.style.transform")}

Annotated(e) == "effect" \in DOMAIN Element(e).dataset
EffectOf(e) == Get(Element(e).dataset, "effect")
KnownEffect(e) == EffectOf(e) = Str(S_parallax) \/ EffectOf(e) = Str(S_slide_in)
\* An entry the pass can animate: a parallax strip with a child, or a
\* slide-in from the right.
WellFormed(e) ==
  \/ EffectOf(e) = Str(S_parallax) /\ e \in Elements /\ firstElementChild[e] # "null"
  \/ EffectOf(e) = Str(S_slide_in) /\ Get(Element(e).dataset, "direction") = Str(S_right)
RegistryElements == {elementsWithEffectsMap[i].element : i \in 1..Len(elementsWithEffectsMap)}

\* The step is an animation frame that follows delivered scroll events.
FrameAfterScrolls == scrollsSinceFrame >= 1 /\ scrollsSinceFrame' = 0
\* The step is an animation frame in which a callback runs.
FrameStep == rafQueue # <<>> /\ rafQueue' = <<>> /\ EventOf(trace') = "animationFrame"
\* The step runs init (from document-ready or from a resize).
InitStep ==
  \/ ~ready /\ ready'
  \/ /\ ready /\ EventOf(trace') = "resize"
     /\ attached' = attached /\ firstElementChild' = firstElementChild

(***************************************************************************)
(* Claims                                                                  *)
(***************************************************************************)
\* C1 (as stated): whenever one or more scroll events were delivered since the
\* last animation frame, the next animation frame runs exactly one
\* effect-application pass.
C1_Coalescing == [][FrameAfterScrolls => Passes(trace') = 1]_vars

\* C2: in every animation frame, each applyEffects call is directly preceded
\* by a propagateScroll call of the same callback with the same viewport
\* snapshot, and there are as many passes as callbacks run.
C2_Ordering ==
  EventOf(trace) = "animationFrame" =>
    /\ \A i \in Ops(trace, "applyEffects") :
         /\ i > 2
         /\ trace[i - 1].op = "propagateScroll"
         /\ trace[i - 1].wd = trace[i].wd
         /\ trace[i - 2].op = "frameCallback"
    /\ \A i \in Ops(trace, "frameCallback") :
         /\ i + 2 <= Len(trace)
         /\ trace[i + 2].op = "applyEffects"
C2_Witness ==
  /\ EventOf(trace) = "animationFrame"
  /\ Passes(trace) = 1
  /\ Written(trace) # {}
  /\ rootScrollTop = Int2JS(100)

\* C3 (as stated): when init returns, applyEffects has run once in it, with
\* the viewport init measured.
C3_ImmediatePass ==
  EventOf(trace) \in {"DOMContentLoaded", "resize"} =>
    \E i \in Ops(trace, "applyEffects"), j \in Ops(trace, "init") :
      trace[i].wd = trace[j].wd

\* C3 (amended): init runs no effect pass itself.  It calls registerNextAF:
\* when it returns the flag is set, no style has been written, and it has
\* requested one frame callback if no frame update was pending when it was
\* called, none if one was.  The pass happens in a frame callback, over the
\* registry as it then is, with the viewport the callback measures.
C3_DeferredPass ==
  [][/\ InitStep =>
          /\ Passes(trace') = 0
          /\ Truthy(nextFrameCallbackId')
          /\ style' = style
          /\ IF Truthy(nextFrameCallbackId)
             THEN rafQueue' = rafQueue /\ nextFrameCallbackId' = nextFrameCallbackId
             ELSE /\ Len(rafQueue') = Len(rafQueue) + 1
                  /\ Requests(trace') = 1
     /\ FrameStep =>
          /\ Passes(trace') = Len(rafQueue)
          /\ \A i \in Ops(trace', "applyEffects") :
               trace'[i].wd = windowScrollAndSize(window)
          /\ Visited(trace') \subseteq RegistryElements]_vars
\* init ran (on a resize) while a frame update was pending.
C3_Witness ==
  /\ EventOf(trace) = "resize"
  /\ Requests(trace) = 0
  /\ Len(rafQueue) = 1
  /\ Len(elementsWithEffectsMap) >= 2

\* C4: once the document is ready there is one scroll listener and one
\* resize listener, at most one frame callback is outstanding, and the
\* registry holds one entry for each annotated element that was under the
\* root at the last scan, and no other.
C4_Idempotent ==
  ready =>
    /\ scrollListeners = 1
    /\ resizeListeners = 1
    /\ Len(rafQueue) <= 1
    /\ Len(elementsWithEffectsMap) = Cardinality({e \in lastScan : Annotated(e)})
    /\ \A e \in lastScan : Annotated(e) =>
         Cardinality({i \in 1..Len(elementsWithEffectsMap) :
                        elementsWithEffectsMap[i].element = e}) = 1
\* init has run again on a resize, after a first frame.
C4_Witness ==
  /\ EventOf(trace) = "resize"
  /\ rafCounter = 2
  /\ Len(elementsWithEffectsMap) = 2

\* C5: an effect pass reaches and writes only elements that were under the
\* root at the last scan: an element removed before the last resize is not
\* touched, also by a callback requested before that resize.
C5_RegistryReplaced ==
  EventOf(trace) = "animationFrame" =>
    (Visited(trace) \cup Written(trace)) \subseteq lastScan
\* A frame after a rescan that dropped an element animated before.
C5_Witness ==
  /\ EventOf(trace) = "animationFrame"
  /\ Written(trace) # {}
  /\ \E e \in Elements :
       /\ e \notin lastScan
       /\ style[e] # [self |-> NoTransform, child |-> NoTransform]


\* C6 (as stated): every registry entry is of an element that was under the
\* root at the last scan and has a recognized effect, parallax or slide-in.
C6_RecognizedOnly ==
  \A i \in 1..Len(elementsWithEffectsMap) :
    /\ elementsWithEffectsMap[i].element \in lastScan
    /\ Get(elementsWithEffectsMap[i].params, "effect") \in {Str(S_parallax), Str(S_slide_in)}

\* C6 (amended): every registry entry is of an element that was under the
\* root at the last scan and carries a data-effect attribute, whatever its
\* value; the entry holds that value and the element's rectangle.
C6_AnnotatedOnly ==
  \A i \in 1..Len(elementsWithEffectsMap) :
    LET e == elementsWithEffectsMap[i].element
        params == elementsWithEffectsMap[i].params
    IN  /\ e \in lastScan
        /\ Annotated(e)
        /\ Get(params, "effect") = EffectOf(e)
        /\ Get(params, "top") = getElementRect(e).top
\* The registry holds an element whose effect is not a recognized one.
C6_Witness ==
  \E i \in 1..Len(elementsWithEffectsMap) :
    Get(elementsWithEffectsMap[i].params, "effect") = Str(S_fade)

\* C7 (as stated): an effect pass writes the transform of every well-formed
\* entry of the registry, also when the registry holds a malformed entry.
C7_NoAbort ==
  (EventOf(trace) = "animationFrame" /\ Passes(trace) >= 1) =>
    \A i \in 1..Len(elementsWithEffectsMap) :
      WellFormed(elementsWithEffectsMap[i].element) =>
        elementsWithEffectsMap[i].element \in Written(trace)

\* C8: a frame callback requested stays queued until an animation frame runs
\* it (no scroll, resize or init takes it out of the queue), and it is run.
InQueue(id) == \E i \in 1..Len(rafQueue) : rafQueue[i] = id
Ran(id) == \E i \in Ops(trace, "frameCallback") : trace[i].id = id
C8_NoCancellation ==
  /\ [][\A id \in 1..MaxFrames : InQueue(id) => (InQueue(id)' \/ Ran(id)')]_vars
  /\ \A id \in 1..MaxFrames : InQueue(id) ~> Ran(id)
\* The callback the first init requested is still queued after two scroll
\* events and a resize.
C8_Witness ==
  /\ InQueue(1)
  /\ scrollsSinceFrame >= 2
  /\ EventOf(trace) = "resize"

\* C9: in an effect pass, an entry whose effect is neither parallax nor
\* slide-in is reached without an error, nothing is written for it, its
\* element's styles and the registry stay as they were, and the pass goes on
\* to the next entry (it ends without an exception if the entry is the last).
C9_UnknownNoOp ==
  [][FrameStep =>
       \A i \in 1..Len(elementsWithEffectsMap) :
         LET e == elementsWithEffectsMap[i].element
         IN  (/\ e \in Visited(trace')
              /\ Get(elementsWithEffectsMap[i].params, "effect")
                   \notin {Str(S_parallax), Str(S_slide_in)})
             => /\ style'[e] = style[e]
                /\ e \notin Written(trace')
                /\ elementsWithEffectsMap' = elementsWithEffectsMap
                /\ i < Len(elementsWithEffectsMap) =>
                     elementsWithEffectsMap[i + 1].element \in Visited(trace')
                /\ i = Len(elementsWithEffectsMap) => ~threw']_vars
\* A pass reached the entry with the unknown effect and animated the next one.
C9_Witness ==
  /\ EventOf(trace) = "animationFrame"
  /\ \E i \in 1..(Len(elementsWithEffectsMap) - 1) :
       /\ Get(elementsWithEffectsMap[i].params, "effect") = Str(S_fade)
       /\ elementsWithEffectsMap[i].element \in Visited(trace)
       /\ elementsWithEffectsMap[i + 1].element \in Written(trace)

\* The coordinator's lifecycle state.
Phase ==
  IF ~ready THEN "Uninitialized"
  ELSE IF Truthy(nextFrameCallbackId) THEN "FrameScheduled" ELSE "Ready"
ReadyStep == ~ready /\ ready'
ScrollStep == ready /\ scrollsSinceFrame' = scrollsSinceFrame + 1
ResizeStep ==
  /\ ready /\ EventOf(trace') = "resize"
  /\ attached' = attached /\ firstElementChild' = firstElementChild
CallbackStep == ready /\ rafQueue # <<>> /\ rafQueue' = <<>>

\* C10 (as stated): Uninitialized -> Ready on document-ready; Ready -> Ready
\* on resize; Ready -> FrameScheduled on scroll only; FrameScheduled -> Ready
\* on the frame callback; nothing else.
C10_StateMachine ==
  [][\/ Phase = "Uninitialized" /\ ~ReadyStep /\ Phase' = "Uninitialized"
     \/ Phase = "Uninitialized" /\ ReadyStep /\ Phase' = "Ready"
     \/ Phase = "Ready" /\ ScrollStep /\ Phase' = "FrameScheduled"
     \/ Phase = "Ready" /\ ~ScrollStep /\ Phase' = "Ready"
     \/ Phase = "FrameScheduled" /\ CallbackStep /\ Phase' = "Ready"
     \/ Phase = "FrameScheduled" /\ ~CallbackStep /\ Phase' = "FrameScheduled"]_vars

\* C10 (amended): Uninitialized -> FrameScheduled on document-ready (init
\* requests a frame callback); Ready -> FrameScheduled on a scroll event and
\* on a resize; FrameScheduled -> Ready on the frame callback when its pass
\* completes, FrameScheduled -> FrameScheduled when the pass throws; scroll
\* and resize events leave FrameScheduled as it is; nothing else.
C10_Lifecycle ==
  [][\/ Phase = "Uninitialized" /\ ~ReadyStep /\ Phase' = "Uninitialized"
     \/ Phase = "Uninitialized" /\ ReadyStep /\ Phase' = "FrameScheduled"
     \/ Phase = "Ready" /\ (ScrollStep \/ ResizeStep) /\ Phase' = "FrameScheduled"
     \/ Phase = "Ready" /\ ~(ScrollStep \/ ResizeStep) /\ Phase' = "Ready"
     \/ Phase = "FrameScheduled" /\ CallbackStep /\ ~threw' /\ Phase' = "Ready"
     \/ Phase = "FrameScheduled" /\ CallbackStep /\ threw' /\ Phase' = "FrameScheduled"
     \/ Phase = "FrameScheduled" /\ ~CallbackStep /\ Phase' = "FrameScheduled"]_vars
\* Back in Ready after the second frame callback.
C10_Witness ==
  /\ Phase = "Ready"
  /\ rafCounter = 2
  /\ EventOf(trace) = "animationFrame"
  /\ Ran(2)

\* The annotated elements put under the root since the last scan.
AddedSinceScan == {e \in UnderRoot \ lastScan : Annotated(e)}
\* The elements a pass assigned a transform to: the element of each slide-in
\* entry written, and the inserted element when it was the first element
\* child a parallax entry wrote to (the child of the markup is no element of
\* the page).
Assigned(tr) ==
  {tr[i].id : i \in Ops(tr, "element.style.transform")}
    \cup {n \in {Inserted} : \E i \in Ops(tr, "bg.style.transform") :
                               tr[i].bg = "inserted"}

\* C11 (as stated): no effect pass writes a transform to an annotated element
\* that was put under the root after the last scan, nor to its first child,
\* however many scroll events and frames follow, until init scans again.
C11_AddedInvisible ==
  [][FrameStep =>
       \A e \in AddedSinceScan :
         /\ style'[e] = style[e]
         /\ e \notin Assigned(trace')]_vars

\* C11, what holds of the registry: it changes in init only, an element added
\* since the last scan has no entry a pass reaches, and an added element of
\* the markup (which is no strip's first child) keeps its transforms.
C11_NotRegistered ==
  [][/\ elementsWithEffectsMap' # elementsWithEffectsMap => InitStep
     /\ FrameStep =>
          \A e \in AddedSinceScan :
            /\ e \notin Visited(trace') \cup Written(trace')
            /\ e \in Elements => style'[e] = style[e]]_vars
\* The second frame animated the registered strip and left alone a
\* well-formed strip that was put under the root after the scan.
C11_Witness ==
  /\ EventOf(trace) = "animationFrame"
  /\ Ran(2)
  /\ Written(trace) # {}
  /\ \E e \in AddedSinceScan :
       /\ WellFormed(e)
       /\ style[e] = [self |-> NoTransform, child |-> NoTransform]

\* The viewport a frame callback measures in this state, and the quantities of
\* the slide-in from the right for an entry's parameters.
viewport == windowScrollAndSize(window)
SlideDistance(params) == JsSub(viewport.width, Get(params, "right"))
SlideEnd(params) == JsMul(viewport.height, Get(params, "threshold"))
SlideCurrent(params) == JsSub(JsAdd(viewport.y, viewport.height), Get(params, "top"))
\* a >= b, a > b on two numbers, neither NaN
AtLeast(a, b) == a.t # "nan" /\ b.t # "nan" /\ ~NumLess(a, b)
\* The registry entries a slide-in from the right was written for by the
\* frame that ran last, the threshold in [0, 1].
SlidRight ==
  {i \in 1..Len(elementsWithEffectsMap) :
     /\ EventOf(trace) = "animationFrame"
     /\ elementsWithEffectsMap[i].element \in Written(trace)
     /\ Get(elementsWithEffectsMap[i].params, "effect") = Str(S_slide_in)
     /\ Get(elementsWithEffectsMap[i].params, "direction") = Str(S_right)
     /\ AtLeast(ToNumber(Get(elementsWithEffectsMap[i].params, "threshold")), Int2JS(0))
     /\ AtLeast(Int2JS(1), ToNumber(Get(elementsWithEffectsMap[i].params, "threshold")))}

\* C12 (as stated): for every slide-in from the right and every viewport with
\* current >= end, the threshold or the viewport height being 0 included, the
\* progress is 1 and the transform written is translateX(0).
C12_FinalState ==
  \A i \in SlidRight :
    LET params == elementsWithEffectsMap[i].params
    IN  AtLeast(SlideCurrent(params), SlideEnd(params)) =>
          /\ slideInProgress(params, viewport) = Int2JS(1)
          /\ style[elementsWithEffectsMap[i].element].self =
               Translate("translateX", Int2JS(0))

\* C12, what the code does: for every slide-in from the right and every viewport with
\* current >= end where current and end are not both 0 and end is not -0, the
\* progress is 1 and the transform written is translateX(0) (end = 0 < current
\* gives min(Infinity, 1) = 1).  When current = end = 0 the progress is
\* 0/0 = NaN and the transform written is translateX(NaNpx).  When end is -0
\* (threshold "-0") and current > 0 the progress is -Infinity and the
\* transform written is translateX(distance * Infinity).
C12_FinalStateUnlessBothZero ==
  \A i \in SlidRight :
    LET params == elementsWithEffectsMap[i].params
        e == elementsWithEffectsMap[i].element
    IN  AtLeast(SlideCurrent(params), SlideEnd(params)) =>
          IF IsZero(SlideCurrent(params)) /\ IsZero(SlideEnd(params))
          THEN /\ slideInProgress(params, viewport) = NaN
               /\ style[e].self = Translate("translateX", NaN)
          ELSE IF SlideEnd(params) = NegZero
          THEN /\ slideInProgress(params, viewport) = NegInfinity
               /\ style[e].self =
                    Translate("translateX", NumMul(SlideDistance(params), Infinity))
          ELSE /\ slideInProgress(params, viewport) = Int2JS(1)
               /\ style[e].self = Translate("translateX", Int2JS(0))
\* A frame wrote translateX(0) for a slide-in whose end is 0 (threshold 0, or
\* a viewport of no height) and whose current is above 0.
C12_Witness ==
  \E i \in SlidRight :
    /\ SlideEnd(elementsWithEffectsMap[i].params) = Int2JS(0)
    /\ NumLess(Int2JS(0), SlideCurrent(elementsWithEffectsMap[i].params))
    /\ IsZero(viewport.height)
    /\ style[elementsWithEffectsMap[i].element].self = Translate("translateX", Int2JS(0))

\* The registry entries with the parallax effect.
ParallaxEntries ==
  {i \in 1..Len(elementsWithEffectsMap) :
     Get(elementsWithEffectsMap[i].params, "effect") = Str(S_parallax)}
\* (scrollY - top) * speed for an entry's parameters, in this viewport.
ParallaxDistance(params) ==
  JsMul(JsSub(viewport.y, Get(params, "top")), Get(params, "speed"))
\* The transform of the first element child the strip e has.
FirstChildStyle(e) ==
  IF firstElementChild[e] = "inserted" THEN style[Inserted].self ELSE style[e].child

\* C13 (as stated): a frame's effect pass sets, for every parallax entry of
\* the registry, the transform of the element's first child to
\* translateY((scrollY - top) * speed), and leaves the element's own transform
\* as it was (never written).
C13_Parallax ==
  (EventOf(trace) = "animationFrame" /\ Passes(trace) = 1) =>
    \A i \in ParallaxEntries :
      /\ FirstChildStyle(elementsWithEffectsMap[i].element) =
           Translate("translateY", ParallaxDistance(elementsWithEffectsMap[i].params))
      /\ style[elementsWithEffectsMap[i].element].self = NoTransform

\* C13, for the entries a frame does write: the transform of the strip's
\* first element child is then translateY((scrollY - top) * speed), 0 when the
\* speed is 0 and 25 for scrollY 100, top 50, speed 0.5; the strip's own
\* transform is not written.
C13_WhereWritten ==
  [][FrameStep =>
       \A i \in ParallaxEntries :
         LET e == elementsWithEffectsMap[i].element
             params == elementsWithEffectsMap[i].params
         IN  e \in Written(trace') =>
               /\ FirstChildStyle(e)' = Translate("translateY", ParallaxDistance(params))
               /\ style'[e].self = style[e].self
               /\ IsZero(ToNumber(Get(params, "speed"))) =>
                    FirstChildStyle(e)'.px = Int2JS(0)
               /\ (/\ ToNumber(Get(params, "speed")) = Num(1, 2)
                   /\ viewport.y = Int2JS(100)
                   /\ Get(params, "top") = Int2JS(50))
                  => FirstChildStyle(e)'.px = Int2JS(25)]_vars

\* C14 (as stated): every frame callback ends with nextFrameCallbackId
\* cleared, whatever the registry holds, and a scroll event that arrives when
\* no callback is outstanding requests one.
C14_FlagReleased ==
  [][/\ FrameStep => nextFrameCallbackId' = Undefined
     /\ (ScrollStep /\ rafQueue = <<>>) =>
          /\ Requests(trace') = 1
          /\ Len(rafQueue') = 1]_vars

\* The root's scroll offsets are those of the window.
RootAtWindow ==
  /\ rootScrollTop = Int2JS(window.y)
  /\ rootScrollLeft = Int2JS(window.x)

\* C15 (as stated): a frame in which a callback runs leaves the root's offsets
\* equal to the window's offsets of that moment, whatever scroll events came
\* after the callback was requested; and once the document is ready, the
\* root's offsets differ from the window's only while a frame callback is
\* outstanding, so that they catch up when scrolling stops.
C15_NoStaleViewport ==
  /\ [][FrameStep => RootAtWindow']_vars
  /\ [](ready /\ ~RootAtWindow => rafQueue # <<>>)

\* C15, the part that holds also when the pass throws: the callback measures
\* the window when it runs and mirrors its offsets before the effects.
C15_MeasuredWhenRun == [][FrameStep => RootAtWindow']_vars

\* C16: for a slide-in from the right with distance > 0 and end > 0, the
\* transform written is translateX(px) with px > distance whenever current is
\* negative, and px = distance * (1 - current / end) for 0 <= current <= end;
\* with width 1000, right 800, height 600, threshold 0.5 and top 300, px is
\* 200 at scrollY -300 and 0 at scrollY 0.
C16_NoLowerClamp ==
  \A i \in SlidRight :
    LET params   == elementsWithEffectsMap[i].params
        written  == style[elementsWithEffectsMap[i].element].self
        distance == SlideDistance(params)
        end      == SlideEnd(params)
        current  == SlideCurrent(params)
    IN  (NumLess(Int2JS(0), distance) /\ NumLess(Int2JS(0), end)) =>
          /\ written.fn = "translateX"
          /\ NumLess(current, Int2JS(0)) => NumLess(distance, written.px)
          /\ (AtLeast(current, Int2JS(0)) /\ AtLeast(end, current)) =>
               written.px = JsMul(distance, JsSub(Int2JS(1), JsDiv(current, end)))
          /\ (/\ distance = Int2JS(200)
              /\ end = Int2JS(300)
              /\ Get(params, "top") = Int2JS(300)) =>
               /\ viewport.y = Int2JS(-300) => written.px = Int2JS(200)
               /\ viewport.y = Int2JS(0) => written.px = Int2JS(0)
\* A frame wrote an offset beyond the distance: the element is below the
\* viewport (current < 0).
C16_Witness ==
  \E i \in SlidRight :
    /\ NumLess(SlideCurrent(elementsWithEffectsMap[i].params), Int2JS(0))
    /\ SlideDistance(elementsWithEffectsMap[i].params) = Int2JS(200)
    /\ SlideEnd(elementsWithEffectsMap[i].params) = Int2JS(300)
    /\ style[elementsWithEffectsMap[i].element].self = Translate("translateX", Int2JS(400))

\* The direction of a registry entry, and the entries that are slide-ins
\* from anywhere but the right.
DirectionOf(i) == Get(elementsWithEffectsMap[i].params, "direction")
SlideOther ==
  {i \in 1..Len(elementsWithEffectsMap) :
     /\ Get(elementsWithEffectsMap[i].params, "effect") = Str(S_slide_in)
     /\ DirectionOf(i) # Str(S_right)}

\* C17: in an effect pass, a slide-in entry whose direction is not right
\* (top, left, bottom, none, or unknown) is reached without an error: nothing
\* is written for it, its element's styles stay as they were, and the pass
\* goes on to the next entry (it ends without an exception if the entry is
\* the last).
C17_OtherDirectionNoOp ==
  [][FrameStep =>
       \A i \in SlideOther :
         LET e == elementsWithEffectsMap[i].element
         IN  e \in Visited(trace') =>
               /\ style'[e] = style[e]
               /\ e \notin Written(trace')
               /\ i < Len(elementsWithEffectsMap) =>
                    elementsWithEffectsMap[i + 1].element \in Visited(trace')
               /\ i = Len(elementsWithEffectsMap) => ~threw']_vars
\* A pass went through slide-ins from the left, the top, the bottom, with no
\* direction and with an unknown one, and animated the entry behind them.
C17_Witness ==
  /\ EventOf(trace) = "animationFrame"
  /\ ~threw
  /\ \A d \in {Str(S_left), Str(S_top), Str(S_bottom), Str(S_up), Undefined} :
       \E i \in SlideOther :
         /\ DirectionOf(i) = d
         /\ elementsWithEffectsMap[i].element \in Visited(trace)
         /\ style[elementsWithEffectsMap[i].element] =
              [self |-> NoTransform, child |-> NoTransform]
  /\ \E i \in SlidRight : \A j \in SlideOther : j < i

\* C18 (as stated): in every reachable state at most one frame callback is
\* outstanding, and nextFrameCallbackId is set exactly when one is.
C18_FlagIffOutstanding ==
  /\ Len(rafQueue) <= 1
  /\ Truthy(nextFrameCallbackId) <=> Len(rafQueue) = 1

\* C18, the part that holds also after a pass has thrown: at most one frame
\* callback is outstanding, its handle is the flag's value, and a resize that
\* arrives while it is outstanding requests no other.
C18_AtMostOneOutstanding ==
  /\ Len(rafQueue) <= 1
  /\ rafQueue # <<>> => nextFrameCallbackId = Int2JS(rafQueue[1])
  /\ (EventOf(trace) = "resize" /\ Requests(trace) = 1) => rafQueue = <<rafCounter>>

\* C19: until the document is ready, whatever scroll and resize events the
\* window has had, the coordinator is as constructed: no listener has run and
\* no frame callback was requested, the registry is empty, and the body
\* height, the root's class and scroll offsets and every transform are as the
\* page had them.
C19_InertBeforeReady ==
  ~ready =>
    /\ trace = <<>>
    /\ rafQueue = <<>>
    /\ rafCounter = 0
    /\ nextFrameCallbackId = Undefined
    /\ elementsWithEffectsMap = <<>>
    /\ bodyHeight = 0
    /\ rootClassList = {}
    /\ rootScrollTop = Int2JS(0)
    /\ rootScrollLeft = Int2JS(0)
    /\ \A e \in Nodes : style[e] = [self |-> NoTransform, child |-> NoTransform]
\* Not ready yet, in a window that is scrolled and narrow, on a page whose
\* script has taken an element out: the root is not scrolled.
C19_Witness ==
  /\ ~ready
  /\ window = [x |-> 5, y |-> 100, width |-> 800, height |-> 600]
  /\ attached # Elements
  /\ scrollListeners = 0
  /\ ~RootAtWindow

====
